---- MODULE Spec2Model ----
(***************************************************************************)
(* Model of pims/importer/importer.py: FileImporter.run with its helpers   *)
(* (notify, mkdir, move, mksymlink, deploy_spatial, deploy_histogram) and  *)
(* FileImporter.import_collection with its two dispatch paths; and the     *)
(* relocation steps of several runs that share one filesystem.             *)
(*                                                                         *)
(* Program positions are named after the source line of the statement that *)
(* is about to execute ("L182" is importer.py line 182).                   *)
(***************************************************************************)
EXTENDS Integers, Sequences, FiniteSets, TLC

\* ------------------------------------------------------------------ bounds
MaxListeners == 2
MaxChildren == 2
MaxUnits == 2
MaxNames == 2
MaxWorkers == 2
MaxParents == 3
MaxKids == 1
MaxGroups == 12
MaxShift == 3

\* ------------------------------------------------------------------ state
VARIABLES
    listeners,    \* self.listeners: the kinds of the registered listeners, in order
    pending,      \* self.pending_file: [extracted, parent, exists] when run is called
    prefer_copy,  \* argument of run
    pc,           \* position of run (source line about to execute)
    exc,          \* exception in flight or raised ("none" when there is none)
    fi,           \* fields of the FileImporter object
    fs,           \* the filesystem: path -> entry
    format,       \* local variable format of run (NoFormat for None)
    archive,      \* local variable archive of run (TRUE iff an Archive object)
    arg,          \* the primitive (mkdir, move, mksymlink) that failed: [op, path]
    delivered,    \* handler invocations so far: [n, l, e, p]
    lastNotify,   \* the last call of notify: [n, e, out, escaped]
    children,     \* children listed by get_extracted_children (child ids)
    idx,          \* loop index over children / over tasks
    tasks,        \* local variable tasks of import_collection (child ids)
    failedBuild,  \* the children whose task construction raised
    imported,     \* local variable imported of import_collection
    task,         \* local variable task: Task.IMPORT or Task.IMPORT_WITH_CYTOMINE
    dispatch,     \* "none" | "bg" (in-process) | "celery" | "fallback"
    taskSt,       \* per child, state of its submitted celery task
    execCount,    \* per child, how many times its import task was executed
    result,       \* the list returned by run (meaningful once pc = "returned")
    unit,         \* concurrent import units: per unit [pc, dir, extracted, copy, exc]
    dirs,         \* per generated name, the unit whose mkdir made the upload directory
    tree,         \* per upload directory, the paths written in it: [path, by]
    parentTree,   \* per unit, the entry at its pending location in the parent's tree
    r_convert,    \* local variable r of deploy_spatial: what format.convert did
    parentJob,    \* shared worker pool: per parent import task, its state
    childJob,     \* shared worker pool: per parent and child, the state of the child task
    key,          \* argument key of decode_key: base64 text, one sextet per character
    decoded       \* outcome of decode_key: [status, value]

\* The state of one run, and the state shared by concurrent import units.
runVars == << listeners, pending, prefer_copy, pc, exc, fi, fs, format, archive,
              arg, delivered, lastNotify, children, idx, tasks, failedBuild,
              imported, task, dispatch, taskSt, execCount, result, r_convert >>

unitVars == << unit, dirs, tree, parentTree >>

\* The state of a worker pool shared by parent and child import tasks.
poolVars == << parentJob, childJob >>

\* The state of one call of decode_key.
decodeVars == << key, decoded >>

vars == << listeners, pending, prefer_copy, pc, exc, fi, fs, format, archive,
           arg, delivered, lastNotify, children, idx, tasks, failedBuild, imported,
           task, dispatch,
           taskSt, execCount, result, unit, dirs, tree, parentTree, r_convert,
           parentJob, childJob, key, decoded >>

\* ------------------------------------------------------------------ vocabulary
\* Kinds of listener objects. "stdout" and "cytomine" define a handler for
\* every event kind, and the handlers return; "cytomine" is an instance of
\* CytomineListener; "bare" is an object with no handler method at all; the
\* handlers of a "raising" listener exist and every call of one raises,
\* either AttributeError or another exception.
SoundKinds == {"stdout", "cytomine"}
AnyKinds == {"stdout", "bare", "raising"}

Paths == {"pending", "upload_dir", "upload_path", "processed_dir",
          "original_path", "new_original_path", "extracted_dir",
          "spatial_path", "histogram_path"}

NoEntry == [k |-> "none", to |-> "-"]
FileEntry == [k |-> "file", to |-> "-"]
DirEntry == [k |-> "dir", to |-> "-"]
LinkTo(t) == [k |-> "link", to |-> t]

NoFields == [upload_dir |-> "None", upload_path |-> "None",
             processed_dir |-> "None", extracted_dir |-> "None",
             original_path |-> "None", original |-> "None",
             spatial_path |-> "None", spatial |-> "None",
             histogram_path |-> "None", histogram |-> "None"]

\* The fixed names of the managed layout (imported at lines 44-51).
PROCESSED_DIR == "processed"
EXTRACTED_DIR == "extracted"
ORIGINAL_STEM == "original"
SPATIAL_STEM == "visualisation"
HISTOGRAM_STEM == "histogram"

\* The directory each path of a run is built under: "a / b" has parent a.
Parent(p) ==
    CASE p = "upload_path" -> "upload_dir"                           \* line 204
      [] p = "processed_dir" -> "upload_dir"                         \* line 239
      [] p \in {"original_path", "new_original_path"} -> "processed_dir"  \* 246, 267
      [] p = "extracted_dir" -> "processed_dir"                      \* line 278
      [] p = "spatial_path" -> "processed_dir"                       \* lines 336, 385
      [] p = "histogram_path" -> "processed_dir"                     \* line 398
      [] OTHER -> "None"

\* Mutant: the extracted multi-file image keeps the name it was extracted
\* under instead of being renamed at lines 264-268.
StemKeepsExtractedName(p) ==
    CASE p = "upload_path" -> "name"
      [] p = "processed_dir" -> PROCESSED_DIR
      [] p = "original_path" -> ORIGINAL_STEM
      [] p = "new_original_path" -> "name"
      [] p = "extracted_dir" -> EXTRACTED_DIR
      [] p = "spatial_path" -> SPATIAL_STEM
      [] p = "histogram_path" -> HISTOGRAM_STEM
      [] OTHER -> "None"

\* The stem of the file name each path of a run is built with (the extension
\* is the identifier of the format).
Stem(p) ==
    CASE p = "upload_path" -> "name"                                 \* lines 200-204
      [] p = "processed_dir" -> PROCESSED_DIR                        \* line 239
      [] p = "original_path" -> ORIGINAL_STEM                        \* lines 243-246
      [] p = "new_original_path" -> ORIGINAL_STEM                    \* lines 264-267
      [] p = "extracted_dir" -> EXTRACTED_DIR                        \* line 278
      [] p = "spatial_path" -> SPATIAL_STEM                          \* lines 335, 384
      [] p = "histogram_path" -> HISTOGRAM_STEM                      \* line 398
      [] OTHER -> "None"

\* The path a path resolves to: links are followed to their end.
RECURSIVE Resolve(_, _)
Resolve(f, p) == IF f[p].k = "link" THEN Resolve(f, f[p].to) ELSE p

\* Sequences over S of length at most n
SeqUpTo(S, n) == UNION {[1..k -> S] : k \in 0..n}

\* ------------------------------------------------------------------ notify
\* The event kind each notify call of the source passes (by source line).
Event(l) ==
    CASE l = "L182" -> "START_DATA_EXTRACTION"
      [] l = "L189" -> "FILE_NOT_FOUND"
      [] l = "L213" -> "MOVED_PENDING_FILE"
      [] l = "L217" -> "END_DATA_EXTRACTION"
      [] l = "L220" -> "START_FORMAT_DETECTION"
      [] l = "L231" -> "ERROR_NO_FORMAT"
      [] l = "L233" -> "END_FORMAT_DETECTION"
      [] l = "L249" -> "START_UNPACKING"
      [] l = "L254" -> "ERROR_UNPACKING"
      [] l = "L272" -> "END_UNPACKING"
      [] l = "L284" -> "END_UNPACKING"
      [] l = "L294" -> "START_INTEGRITY_CHECK"
      [] l = "L298" -> "ERROR_INTEGRITY_CHECK"
      [] l = "L303" -> "END_INTEGRITY_CHECK"
      [] l = "L313" -> "END_SUCCESSFUL_IMPORT"
      [] l = "L319" -> "FILE_ERROR"
      [] l = "L330" -> "START_SPATIAL_DEPLOY"
      [] l = "L337" -> "START_CONVERSION"
      [] l = "L344" -> "ERROR_CONVERSION"
      [] l = "L350" -> "ERROR_CONVERSION"
      [] l = "L356" -> "END_CONVERSION"
      [] l = "L359" -> "START_FORMAT_DETECTION"
      [] l = "L362" -> "ERROR_NO_FORMAT"
      [] l = "L364" -> "END_FORMAT_DETECTION"
      [] l = "L372" -> "START_INTEGRITY_CHECK"
      [] l = "L375" -> "ERROR_INTEGRITY_CHECK"
      [] l = "L380" -> "END_INTEGRITY_CHECK"
      [] l = "L390" -> "END_SPATIAL_DEPLOY"
      [] l = "L399" -> "START_HISTOGRAM_DEPLOY"
      [] l = "L408" -> "ERROR_HISTOGRAM"
      [] l = "L415" -> "END_HISTOGRAM_DEPLOY"
      [] l = "L425" -> "FILE_ERROR"
      [] l = "L436" -> "FILE_NOT_MOVED"
      [] l = "L447" -> "FILE_ERROR"
      [] l = "L471" -> "REGISTER_FILE"

NotifySites == {"L182", "L189", "L213", "L217", "L220", "L231", "L233", "L249",
                "L254", "L272", "L284", "L294", "L298", "L303", "L313", "L319",
                "L330", "L337", "L344", "L350", "L356", "L359", "L362", "L364",
                "L372", "L375", "L380", "L390", "L399", "L408", "L415", "L425",
                "L436", "L447", "L471"}

\* The first positional argument of each notify call: the subject path.
Subject(l, f, a, c) ==
    CASE l \in {"L182", "L189", "L213"} -> "pending"
      [] l \in {"L217", "L220", "L231", "L233", "L249", "L254", "L272", "L284",
                "L313", "L319"} -> f.upload_path
      [] l \in {"L294", "L298", "L303", "L330"} -> f.original_path
      [] l \in {"L337", "L344", "L350", "L356", "L359", "L362", "L364", "L372",
                "L375", "L380", "L390"} -> f.spatial_path
      [] l \in {"L399", "L408", "L415"} -> f.histogram_path
      [] l \in {"L425", "L436", "L447"} -> a.path
      [] l = "L471" -> c

\* What one listener does with one call, by its kind.
Outcomes(kind) ==
    CASE kind \in {"stdout", "cytomine"} -> {"ok"}
      [] kind = "bare" -> {"nomethod"}
      [] kind = "raising" -> {"attrerr", "raised"}

Choices(ls) == {ch \in [1..Len(ls) -> {"ok", "nomethod", "attrerr", "raised"}] :
                   \A i \in 1..Len(ls) : ch[i] \in Outcomes(ls[i])}

\* FileImporter.notify, the loop of lines 159-164 from listener i on: getattr
\* raises AttributeError when the method is missing ("nomethod"), the handler
\* may raise AttributeError itself ("attrerr"); both are caught and the loop
\* goes on. Any other exception ("raised") is not caught: it ends the loop.
\* acc is the list of [l, o]: listener index and what happened there.
RECURSIVE NotifyFrom(_, _, _)
NotifyFrom(i, ch, acc) ==
    IF i > Len(ch) THEN [out |-> acc, escaped |-> FALSE]
    ELSE IF ch[i] = "raised"
         THEN [out |-> Append(acc, [l |-> i, o |-> "raised"]), escaped |-> TRUE]
         ELSE NotifyFrom(i + 1, ch, Append(acc, [l |-> i, o |-> ch[i]]))

\* Mutant: except Exception instead of except AttributeError.
NotifyCatchAll(ch) ==
    [out |-> [i \in 1..Len(ch) |-> [l |-> i, o |-> ch[i]]], escaped |-> FALSE]

\* Mutant: the listeners are visited last to first.
RECURSIVE NotifyDown(_, _, _)
NotifyDown(i, ch, acc) ==
    IF i < 1 THEN [out |-> acc, escaped |-> FALSE]
    ELSE IF ch[i] = "raised"
         THEN [out |-> Append(acc, [l |-> i, o |-> "raised"]), escaped |-> TRUE]
         ELSE NotifyDown(i - 1, ch, Append(acc, [l |-> i, o |-> ch[i]]))

NotifyReversed(ch) == NotifyDown(Len(ch), ch, << >>)

\* FileImporter.notify (lines 158-164).
notify(ch) == NotifyFrom(1, ch, << >>)

\* The handler invocations of one notify call, in the order they happen:
\* a listener without the method is not invoked.
Invoked(out) == SelectSeq(out, LAMBDA x : x.o # "nomethod")

\* ------------------------------------------------------------------ control flow
Goto(l) == [to |-> l, raise |-> "none"]
Raise(e) == [to |-> "-", raise |-> e]

\* Mutant: line 288 does not return, the run goes on after the collection.
AfterEndUnpackingFallsThrough == Goto("L294")

\* After the END_UNPACKING of the collection branch (lines 284-288): return.
AfterEndUnpackingOfCollection == Goto("L288")

\* Mutant: deploy_histogram is called before deploy_spatial.
AfterIntegrityHistogramFirst ==
    IF format.spatial THEN Goto("L399") ELSE Raise("NotImplementedError")

\* Lines 303-308: after END_INTEGRITY_CHECK, deploy_spatial or NotImplementedError.
AfterIntegrityCheck ==
    IF format.spatial THEN Goto("L330") ELSE Raise("NotImplementedError")

\* Mutant: a failed extraction leaves run with the archive-error kind.
UnpackingArchiveError == "ArchiveError"

\* Line 258: the kind raised after ERROR_UNPACKING.
UnpackingProblem == "FileErrorProblem"

\* What follows the notify call at line l when notify returns: the next
\* statement with an outcome of its own, or the raise statement that follows.
After(l) ==
    CASE l = "L182" -> Goto("L186")
      [] l = "L189" -> Raise("FilepathNotFoundProblem")
      [] l = "L213" -> Goto("L217")
      [] l = "L217" -> Goto("L220")
      [] l = "L220" -> Goto("L223")
      [] l = "L231" -> Raise("NoMatchingFormatProblem")
      [] l = "L233" -> Goto("L240")
      [] l = "L249" -> Goto("L252")
      [] l = "L254" -> Raise(UnpackingProblem)
      [] l = "L272" -> Goto("L294")
      [] l = "L284" -> AfterEndUnpackingOfCollection
      [] l = "L294" -> Goto("L296")
      [] l = "L298" -> Raise("ImageParsingProblem")
      [] l = "L303" -> AfterIntegrityCheck
      [] l = "L313" -> Goto("L317")
      [] l = "L319" -> Raise(exc)
      [] l = "L330" -> IF format.needConv THEN Goto("L337") ELSE Goto("L386")
      [] l = "L337" -> Goto("L342")
      [] l = "L344" -> Raise("FormatConversionProblem")
      [] l = "L350" -> Raise("FormatConversionProblem")
      [] l = "L356" -> Goto("L359")
      [] l = "L359" -> Goto("L360")
      [] l = "L362" -> Raise("NoMatchingFormatProblem")
      [] l = "L364" -> Goto("L372")
      [] l = "L372" -> Goto("L373")
      [] l = "L375" -> Raise("ImageParsingProblem")
      [] l = "L380" -> Goto("L390")
      [] l = "L390" -> Goto("L399")
      [] l = "L399" -> Goto("L404")
      [] l = "L408" -> Raise("FileErrorProblem")
      [] l = "L415" -> Goto("L313")
      [] l = "L425" -> Raise("FileErrorProblem")
      [] l = "L436" -> Raise("FileErrorProblem")
      [] l = "L447" -> Raise("FileErrorProblem")
      [] l = "L471" -> Goto("L475")

\* Mutant: run has no except clause, an exception leaves run at once.
CatchNoWrapper(l) ==
    IF l \in {"L337", "L342", "L344"} THEN "L350" ELSE "raised"

\* Where an exception raised at line l is caught: the try of deploy_spatial
\* (lines 333-348) is handled at line 349; everything else inside the try of
\* run (lines 181-317) at line 318; the handler of run itself (line 319) lets
\* the exception leave run.
Catch(l) ==
    IF l \in {"L337", "L342", "L344"} THEN "L350"
    ELSE IF l = "L319" THEN "raised"
    ELSE "L319"

\* Mutant: line 276 is missing, upload_path stays the relocated upload.
PostKeepsUploadPath(l, f) ==
    CASE l = "L330" -> [f EXCEPT !.spatial_path = "spatial_path"]
      [] l = "L364" -> [f EXCEPT !.spatial = "Image"]
      [] l = "L390" -> [f EXCEPT !.histogram_path = "histogram_path"]
      [] OTHER -> f

\* The assignments between the notify call at line l and the next statement
\* with an outcome of its own.
Post(l, f) ==
    CASE l = "L272" -> [f EXCEPT !.upload_path = f.original_path]      \* line 276
      [] l = "L330" -> [f EXCEPT !.spatial_path = "spatial_path"]      \* lines 336, 385
      [] l = "L364" -> [f EXCEPT !.spatial = "Image"]                  \* line 369
      [] l = "L390" -> [f EXCEPT !.histogram_path = "histogram_path"]  \* line 398
      [] OTHER -> f

\* One call of notify at the current line, and the control transfer after it.
NotifyStep ==
    /\ pc \in NotifySites
    /\ \E ch \in Choices(listeners) :
        LET r == notify(ch)
            n == lastNotify.n + 1
            c == IF pc = "L471" THEN children[idx] ELSE 0
            hs == Invoked(r.out)
            a == After(pc)
        IN  /\ delivered' = delivered \o
                   [i \in 1..Len(hs) |->
                       [n |-> n, l |-> hs[i].l, e |-> Event(pc),
                        p |-> Subject(pc, fi, arg, c)]]
            /\ lastNotify' = [n |-> n, e |-> Event(pc), at |-> pc,
                              out |-> r.out, escaped |-> r.escaped]
            /\ IF r.escaped
               THEN /\ pc' = Catch(pc)
                    /\ exc' = "ListenerError"
                    /\ fi' = fi
               ELSE IF a.raise # "none"
               THEN /\ pc' = Catch(pc)
                    /\ exc' = a.raise
                    /\ fi' = fi
               ELSE /\ pc' = a.to
                    /\ exc' = exc
                    /\ fi' = Post(pc, fi)
    /\ UNCHANGED << decodeVars, poolVars, unitVars, r_convert, listeners, pending, prefer_copy, fs, format, archive, arg,
                    children, idx, tasks, failedBuild, imported, task, dispatch, taskSt,
                    execCount, result >>

\* ------------------------------------------------------------------ run
\* A format object: its identifier and the capabilities run reads from it.
\* NoFormat stands for None.
ImageFormat(conv, spatial) ==
    [id |-> "img", archive |-> FALSE, needConv |-> conv, spatial |-> spatial]
ArchiveFormat == [id |-> "zip", archive |-> TRUE, needConv |-> FALSE, spatial |-> FALSE]
NoFormat == [id |-> "None", archive |-> FALSE, needConv |-> FALSE, spatial |-> FALSE]
ImageFormats == {ImageFormat(c, s) : c \in BOOLEAN, s \in BOOLEAN}

Exists(f, p) == f[p].k # "none"

\* Mutant: the existence of the pending file is not checked.
RejectedByAreaOnly(p, exists) ==
    ~p.extracted /\ (p.parent # "WRITING" /\ p.parent # "PENDING")

\* The condition of lines 186-188.
Rejected(p, exists) ==
    \/ ~p.extracted /\ (p.parent # "WRITING" /\ p.parent # "PENDING")
    \/ ~exists

\* Lines 186-198: the pending file is checked before anything is created.
CheckPending ==
    /\ pc = "L186"
    /\ pc' = IF Rejected(pending, Exists(fs, "pending")) THEN "L189" ELSE "L198"
    /\ UNCHANGED << decodeVars, poolVars, unitVars, r_convert, listeners, pending, prefer_copy, exc, fi, fs, format, archive,
                    arg, delivered, lastNotify, children, idx, tasks, failedBuild, imported,
                    task, dispatch, taskSt, execCount, result >>

\* The exceptions the underlying filesystem operations raise.
FsErrors == {"FileNotFoundError", "FileExistsError", "OSError"}

\* Mutant: the except clauses name FileNotFoundError and FileExistsError only.
HandledNamedOnly(e) == e \in {"FileNotFoundError", "FileExistsError"}

\* The except clauses of lines 424, 435 and 446: (FileNotFoundError,
\* FileExistsError, OSError).
Handled(e) == e \in {"FileNotFoundError", "FileExistsError", "OSError"}

\* Mutant: no link is left at the pending location.
AfterMoveNoLink(copy, p) == "L213"

\* Line 209: a pending file that was moved out of an extracted collection
\* gets a link at its former location.
AfterMoveOfPending(copy, p) == IF ~copy /\ p.extracted THEN "L211" ELSE "L213"

\* Mutant: the spatial link of line 386 points to the upload path.
LinkTargetUpload(l, f) ==
    CASE l = "L211" -> f.upload_path
      [] l = "L279" -> f.original_path
      [] l = "L290" -> f.upload_path
      [] l = "L386" -> f.upload_path

\* The arguments of mksymlink(path, target) at lines 211, 279, 290 and 386.
LinkPath(l, f) ==
    CASE l = "L211" -> "pending"
      [] l = "L279" -> "extracted_dir"
      [] l = "L290" -> f.original_path
      [] l = "L386" -> f.spatial_path

LinkTarget(l, f) ==
    CASE l = "L211" -> f.upload_path
      [] l = "L279" -> f.original_path
      [] l = "L290" -> f.upload_path
      [] l = "L386" -> f.original_path

\* FileImporter.mkdir (lines 420-426) at its two call sites, lines 198 and 240,
\* with the assignments around them (lines 197, 204, 239, 246).
MkdirStep ==
    /\ pc \in {"L198", "L240"}
    /\ LET d == IF pc = "L198" THEN "upload_dir" ELSE "processed_dir"
           f1 == IF pc = "L198" THEN [fi EXCEPT !.upload_dir = d]
                                ELSE [fi EXCEPT !.processed_dir = d]
       IN \E err \in {"none"} \cup FsErrors :
            LET e == IF err = "none" /\ Exists(fs, d) THEN "FileExistsError" ELSE err
            IN IF e = "none"
               THEN /\ fs' = [fs EXCEPT ![d] = DirEntry]
                    /\ IF pc = "L198"
                       THEN /\ fi' = [f1 EXCEPT !.upload_path = "upload_path"]
                            /\ pc' = "L206"
                       ELSE /\ fi' = [f1 EXCEPT !.original_path = "original_path"]
                            /\ pc' = IF archive THEN "L249" ELSE "L290"
                    /\ arg' = arg
                    /\ exc' = exc
               ELSE /\ fs' = fs
                    /\ fi' = f1
                    /\ IF Handled(e)
                       THEN /\ arg' = [op |-> "mkdir", path |-> d]
                            /\ pc' = "L425"
                            /\ exc' = exc
                       ELSE /\ arg' = arg
                            /\ pc' = Catch(pc)
                            /\ exc' = e
    /\ UNCHANGED << decodeVars, poolVars, unitVars, r_convert, listeners, pending, prefer_copy, format, archive,
                    delivered, lastNotify, children, idx, tasks, failedBuild, imported, task,
                    dispatch, taskSt, execCount, result >>

\* Mutant: the origin is removed also when the file is copied.
MovedAlwaysRemoves(f, origin, dest, copy) ==
    [f EXCEPT ![dest] = f[origin], ![origin] = NoEntry]

\* The filesystem after the relocation of lines 431-434: shutil.copy leaves the
\* origin as it is, shutil.move leaves nothing at the origin.
Moved(f, origin, dest, copy) ==
    IF copy THEN [f EXCEPT ![dest] = f[origin]]
    ELSE [f EXCEPT ![dest] = f[origin], ![origin] = NoEntry]

\* FileImporter.move (lines 428-437) at its two call sites, lines 206 and 268:
\* shutil.copy leaves the origin in place, shutil.move removes it.
MoveStep ==
    /\ pc \in {"L206", "L268"}
    /\ LET origin == IF pc = "L206" THEN "pending" ELSE "original_path"
           dest == IF pc = "L206" THEN "upload_path" ELSE "new_original_path"
           copy == IF pc = "L206" THEN prefer_copy ELSE FALSE
       IN \E err \in {"none"} \cup FsErrors :
            LET e == IF err = "none" /\ ~Exists(fs, origin) THEN "FileNotFoundError"
                     ELSE err
            IN IF e = "none"
               THEN /\ fs' = Moved(fs, origin, dest, copy)
                    /\ IF pc = "L206"
                       THEN /\ fi' = fi
                            /\ pc' = AfterMoveOfPending(prefer_copy, pending)
                       ELSE /\ fi' = [fi EXCEPT !.original_path = dest]   \* line 269
                            /\ pc' = "L272"
                    /\ arg' = arg
                    /\ exc' = exc
               ELSE /\ fs' = fs
                    /\ fi' = fi
                    /\ IF Handled(e)
                       THEN /\ arg' = [op |-> "move", path |-> origin]
                            /\ pc' = "L436"
                            /\ exc' = exc
                       ELSE /\ arg' = arg
                            /\ pc' = Catch(pc)
                            /\ exc' = e
    /\ UNCHANGED << decodeVars, poolVars, unitVars, r_convert, listeners, pending, prefer_copy, format, archive,
                    delivered, lastNotify, children, idx, tasks, failedBuild, imported, task,
                    dispatch, taskSt, execCount, result >>

\* FileImporter.mksymlink (lines 439-448) at its call sites, lines 211, 279,
\* 290 and 386: path.symlink_to(target) makes a link at path.
SymlinkStep ==
    /\ pc \in {"L211", "L279", "L290", "L386"}
    /\ LET path == LinkPath(pc, fi)
           target == LinkTarget(pc, fi)
           f1 == IF pc = "L279" THEN [fi EXCEPT !.extracted_dir = path]   \* line 278
                 ELSE fi
       IN \E err \in {"none"} \cup FsErrors :
            LET e == IF err = "none" /\ Exists(fs, path) THEN "FileExistsError" ELSE err
            IN IF e = "none"
               THEN /\ fs' = [fs EXCEPT ![path] = LinkTo(target)]
                    /\ fi' = IF pc = "L386" THEN [f1 EXCEPT !.spatial = "Image"]  \* line 387
                             ELSE f1
                    /\ pc' = CASE pc = "L211" -> "L213"
                               [] pc = "L279" -> "L453"
                               [] pc = "L290" -> "L294"
                               [] pc = "L386" -> "L390"
                    /\ arg' = arg
                    /\ exc' = exc
               ELSE /\ fs' = fs
                    /\ fi' = f1
                    /\ IF Handled(e)
                       THEN /\ arg' = [op |-> "mksymlink", path |-> path]
                            /\ pc' = "L447"
                            /\ exc' = exc
                       ELSE /\ arg' = arg
                            /\ pc' = Catch(pc)
                            /\ exc' = e
    /\ UNCHANGED << decodeVars, poolVars, unitVars, r_convert, listeners, pending, prefer_copy, format, archive,
                    delivered, lastNotify, children, idx, tasks, failedBuild, imported, task,
                    dispatch, taskSt, execCount, result >>

\* Lines 222-230: ImportableFormatFactory.match, then Archive.from_path.
DetectFormat ==
    /\ pc = "L223"
    /\ \E m \in ImageFormats \cup {NoFormat}, a \in BOOLEAN :
         IF m # NoFormat
         THEN format' = m /\ archive' = FALSE /\ pc' = "L233"
         ELSE IF a
         THEN format' = ArchiveFormat /\ archive' = TRUE /\ pc' = "L233"
         ELSE format' = NoFormat /\ archive' = FALSE /\ pc' = "L231"
    /\ UNCHANGED << decodeVars, poolVars, unitVars, r_convert, listeners, pending, prefer_copy, exc, fi, fs, arg, delivered,
                    lastNotify, children, idx, tasks, failedBuild, imported, task, dispatch,
                    taskSt, execCount, result >>

\* Line 252: archive.extract(self.original_path); ArchiveError is caught at
\* line 253. A failed extraction may leave a partial directory behind.
Extract ==
    /\ pc = "L252"
    /\ \E ok \in BOOLEAN, made \in BOOLEAN :
         IF ok
         THEN /\ fs' = [fs EXCEPT !["original_path"] = DirEntry]
              /\ pc' = "L261"
         ELSE /\ fs' = IF made THEN [fs EXCEPT !["original_path"] = DirEntry] ELSE fs
              /\ pc' = "L254"
    /\ UNCHANGED << decodeVars, poolVars, unitVars, r_convert, listeners, pending, prefer_copy, exc, fi, format, archive, arg,
                    delivered, lastNotify, children, idx, tasks, failedBuild, imported, task,
                    dispatch, taskSt, execCount, result >>

\* Lines 261-262: format detection on the extracted archive.
MatchExtracted ==
    /\ pc = "L261"
    /\ \E m \in ImageFormats \cup {NoFormat} :
         /\ format' = m
         /\ pc' = IF m # NoFormat THEN "L268" ELSE "L279"
    /\ UNCHANGED << decodeVars, poolVars, unitVars, r_convert, listeners, pending, prefer_copy, exc, fi, fs, archive, arg,
                    delivered, lastNotify, children, idx, tasks, failedBuild, imported, task,
                    dispatch, taskSt, execCount, result >>

\* check_integrity at lines 295-297 (original) and 373-374 (converted file).
CheckIntegrity ==
    /\ pc \in {"L296", "L373"}
    /\ \E errors \in BOOLEAN :
         IF pc = "L296"
         THEN /\ fi' = [fi EXCEPT !.original = "Image"]    \* line 295
              /\ pc' = IF errors THEN "L298" ELSE "L303"
         ELSE /\ fi' = fi
              /\ pc' = IF errors THEN "L375" ELSE "L380"
    /\ UNCHANGED << decodeVars, poolVars, unitVars, r_convert, listeners, pending, prefer_copy, exc, fs, format, archive, arg,
                    delivered, lastNotify, children, idx, tasks, failedBuild, imported, task,
                    dispatch, taskSt, execCount, result >>

\* Lines 342-343: format.convert(self.spatial_path). The conversion returns
\* r or raises, and in each case the output file may or may not exist.
ConversionFailedByResultOnly(r, made) == r = "false"

\* The test of line 343: the conversion is a failure when it returned false or
\* when the target spatial path does not exist afterwards.
ConversionFailed(r, made) == r = "false" \/ ~made

Convert ==
    /\ pc = "L342"
    /\ \E out \in {"true", "false", "raise"}, made \in BOOLEAN :
         /\ fs' = IF made THEN [fs EXCEPT !["spatial_path"] = FileEntry] ELSE fs
         /\ r_convert' = out
         /\ IF out = "raise"
            THEN pc' = Catch("L342") /\ exc' = "ConversionError"
            ELSE IF ConversionFailed(out, Exists(fs', "spatial_path"))
            THEN pc' = "L344" /\ exc' = exc
            ELSE pc' = "L356" /\ exc' = exc
    /\ UNCHANGED << decodeVars, poolVars, unitVars, listeners, pending, prefer_copy, fi, format, archive, arg,
                    delivered, lastNotify, children, idx, tasks, failedBuild, imported, task,
                    dispatch, taskSt, execCount, result >>

\* Lines 360-361: SpatialReadableFormatFactory().match(self.spatial_path).
MatchSpatial ==
    /\ pc = "L360"
    /\ \E matched \in BOOLEAN : pc' = IF matched THEN "L364" ELSE "L362"
    /\ UNCHANGED << decodeVars, poolVars, unitVars, r_convert, listeners, pending, prefer_copy, exc, fi, fs, format, archive,
                    arg, delivered, lastNotify, children, idx, tasks, failedBuild, imported,
                    task, dispatch, taskSt, execCount, result >>

\* Lines 403-412: build_histogram_file; FileNotFoundError and FileExistsError
\* are caught at line 407.
BuildHistogram ==
    /\ pc = "L404"
    /\ \E out \in {"ok", "FileNotFoundError", "FileExistsError"} :
         IF out = "ok"
         THEN /\ fs' = [fs EXCEPT !["histogram_path"] = FileEntry]
              /\ fi' = [fi EXCEPT !.histogram = "Histogram"]
              /\ pc' = "L415"
         ELSE /\ fs' = fs
              /\ fi' = fi
              /\ pc' = "L408"
    /\ UNCHANGED << decodeVars, poolVars, unitVars, r_convert, listeners, pending, prefer_copy, exc, format, archive, arg,
                    delivered, lastNotify, children, idx, tasks, failedBuild, imported, task,
                    dispatch, taskSt, execCount, result >>

\* The return statements of run: line 317 returns [self.upload_path], line 288
\* returns the value of import_collection.
ReturnStep ==
    /\ pc \in {"L317", "L288"}
    /\ result' = IF pc = "L317" THEN << fi.upload_path >> ELSE imported
    /\ pc' = "returned"
    /\ UNCHANGED << decodeVars, poolVars, unitVars, r_convert, listeners, pending, prefer_copy, exc, fi, fs, format, archive,
                    arg, delivered, lastNotify, children, idx, tasks, failedBuild, imported,
                    task, dispatch, taskSt, execCount >>

\* ------------------------------------------------------------------ import_collection
\* Lines 452-460: the task kind depends on a CytomineListener being registered.
TaskKind(ls) ==
    IF \E i \in 1..Len(ls) : ls[i] = "cytomine" THEN "IMPORT_WITH_CYTOMINE"
    ELSE "IMPORT"

\* Lines 452-468: the locals of import_collection and the listing of the
\* children (get_extracted_children yields any number of them).
StartCollection ==
    /\ pc = "L453"
    /\ task' = TaskKind(listeners)
    /\ imported' = << >>
    /\ tasks' = << >>
    /\ \E k \in 0..MaxChildren :
         /\ children' = [i \in 1..k |-> i]
         /\ pc' = IF k = 0 THEN "L493" ELSE "L471"
    /\ idx' = 1
    /\ UNCHANGED << decodeVars, poolVars, unitVars, r_convert, listeners, pending, prefer_copy, exc, fi, fs, format, archive,
                    arg, delivered, lastNotify, failedBuild, dispatch, taskSt,
                    execCount, result >>

\* Lines 474-487: the task of one child is appended when its arguments could
\* be built; a failure is swallowed.
BuiltTasks(ts, child, ok) == IF ok THEN Append(ts, child) ELSE ts

\* Mutant: the except clause of line 484 is missing.
AfterBuildPropagates(i, n, ok, e) ==
    IF ~ok THEN [pc |-> "L319", exc |-> "ListenerBuildError"]
    ELSE [pc |-> IF i < n THEN "L471" ELSE "L493", exc |-> e]

\* Lines 468-487: the loop goes on to the next child, or to the dispatch,
\* whatever the outcome of the construction (except Exception: pass).
AfterBuild(i, n, ok, e) ==
    [pc |-> IF i < n THEN "L471" ELSE "L493", exc |-> e]

\* Lines 474-487: building the arguments of the task of children[idx]. With a
\* CytomineListener, new_listener_from_registered_child may raise; without
\* one the arguments are plain values.
BuildTask ==
    /\ pc = "L475"
    /\ \E ok \in (IF task = "IMPORT_WITH_CYTOMINE" THEN BOOLEAN ELSE {TRUE}) :
         /\ tasks' = BuiltTasks(tasks, children[idx], ok)
         /\ failedBuild' = IF ok THEN failedBuild ELSE failedBuild \cup {children[idx]}
         /\ pc' = AfterBuild(idx, Len(children), ok, exc).pc
         /\ exc' = AfterBuild(idx, Len(children), ok, exc).exc
    /\ idx' = idx + 1
    /\ UNCHANGED << decodeVars, poolVars, unitVars, r_convert, listeners, pending, prefer_copy, fi, fs, format, archive, arg,
                    delivered, lastNotify, children, imported, task, dispatch,
                    taskSt, execCount, result >>

\* Line 493: get_settings().task_queue_enabled is read at dispatch time.
Dispatch ==
    /\ pc = "L493"
    /\ \E task_queue_enabled \in BOOLEAN :
         IF ~task_queue_enabled
         THEN pc' = "L490" /\ dispatch' = "bg" /\ idx' = 1
         ELSE pc' = "L497" /\ dispatch' = dispatch /\ idx' = idx
    /\ UNCHANGED << decodeVars, poolVars, unitVars, r_convert, listeners, pending, prefer_copy, exc, fi, fs, format, archive,
                    arg, delivered, lastNotify, children, tasks, failedBuild, imported, task,
                    taskSt, execCount, result >>

\* Lines 497-510: the group is built and submitted. apply_async publishes the
\* tasks one by one: when it raises, the first n of them are already queued.
\* Any exception is caught at line 512 and leads to line 518.
Submit ==
    /\ pc = "L497"
    /\ \E ok \in BOOLEAN, n \in 0..Len(tasks) :
         /\ taskSt' = [c \in DOMAIN taskSt |->
                         IF \E i \in 1..(IF ok THEN Len(tasks) ELSE n) : tasks[i] = c
                         THEN "queued" ELSE taskSt[c]]
         /\ IF ok
            THEN pc' = "L511" /\ dispatch' = "celery" /\ idx' = idx
            ELSE pc' = "L490" /\ dispatch' = "fallback" /\ idx' = 1
    /\ UNCHANGED << decodeVars, poolVars, unitVars, r_convert, listeners, pending, prefer_copy, exc, fi, fs, format, archive,
                    arg, delivered, lastNotify, children, tasks, failedBuild, imported, task,
                    execCount, result >>

\* A worker of the task queue executes one queued child task.
WorkerExec ==
    /\ \E c \in DOMAIN taskSt, ok \in BOOLEAN :
         /\ taskSt[c] = "queued"
         /\ taskSt' = [taskSt EXCEPT ![c] = IF ok THEN "ok" ELSE "failed"]
         /\ execCount' = [execCount EXCEPT ![c] = @ + 1]
    /\ UNCHANGED << decodeVars, poolVars, unitVars, r_convert, listeners, pending, prefer_copy, pc, exc, fi, fs, format,
                    archive, arg, delivered, lastNotify, children, idx, tasks, failedBuild,
                    imported, task, dispatch, result >>

\* The results of the group, in submission order.
FirstUnfinished(ts, st) ==
    IF \E i \in 1..Len(ts) : st[ts[i]] # "ok"
    THEN CHOOSE i \in 1..Len(ts) :
            /\ st[ts[i]] # "ok"
            /\ \A j \in 1..(i - 1) : st[ts[j]] = "ok"
    ELSE 0

\* Line 511: r.get() waits for the results in order and re-raises the
\* exception of a failed child; the result backend may also fail at any time.
\* Any exception is caught at line 512 and leads to line 518.
Join ==
    /\ pc = "L511"
    /\ LET i == FirstUnfinished(tasks, taskSt)
       IN \/ /\ i = 0
             /\ pc' = "L520" /\ dispatch' = dispatch /\ idx' = idx
          \/ /\ i # 0 /\ taskSt[tasks[i]] = "failed"
             /\ pc' = "L490" /\ dispatch' = "fallback" /\ idx' = 1
          \/ /\ pc' = "L490" /\ dispatch' = "fallback" /\ idx' = 1
    /\ UNCHANGED << decodeVars, poolVars, unitVars, r_convert, listeners, pending, prefer_copy, exc, fi, fs, format, archive,
                    arg, delivered, lastNotify, children, tasks, failedBuild, imported, task,
                    taskSt, execCount, result >>

\* run_import (lines 606-622) called as run_import(*[str(child), child.name,
\* prefer_copy]): the third positional parameter is extra_listeners, so
\* extra_listeners is a bool; it is not None and not a list, and list(bool)
\* raises TypeError before any importer is built.
RunImport(filepath, name, extra_listeners) ==
    IF extra_listeners = "None" THEN "run"
    ELSE IF extra_listeners \in {"True", "False"} THEN "TypeError"
    ELSE "run"

PyBool(b) == IF b THEN "True" ELSE "False"

\* BG_TASK_MAPPING (pims.tasks.queue): the function called in-process for
\* each task kind.
BgTaskFunction(kind) ==
    IF kind = "IMPORT" THEN "run_import" ELSE "run_import_with_cytomine"

\* The outcomes of one in-process call of the function of a task (line 491):
\* run_import with the arguments of line 482; run_import_with_cytomine
\* imports the child or raises.
InProcessOutcomes(kind, pcopy) ==
    IF BgTaskFunction(kind) = "run_import"
    THEN IF RunImport("child", "name", PyBool(pcopy)) = "TypeError"
         THEN {"TypeError"}
         ELSE {"ok", "ImportError"}
    ELSE {"ok", "ImportError"}

\* Mutant: the loop of line 490 walks the tasks last to first.
SeqTaskReversed(ts, i) == ts[Len(ts) + 1 - i]

\* Line 490: the i-th iteration of "for name, args_ in tasks".
SeqTask(ts, i) == ts[i]

\* _sequential_imports (lines 489-491), called at line 494 or at line 518:
\* the tasks are called one after the other; an exception of a call leaves
\* the loop, import_collection and the try of run.
SeqExec ==
    /\ pc = "L490"
    /\ IF idx > Len(tasks)
       THEN /\ pc' = "L520"
            /\ UNCHANGED << exc, idx, execCount >>
       ELSE \E out \in InProcessOutcomes(task, prefer_copy) :
              /\ execCount' = [execCount EXCEPT ![SeqTask(tasks, idx)] = @ + 1]
              /\ IF out = "ok"
                 THEN pc' = pc /\ exc' = exc /\ idx' = idx + 1
                 ELSE pc' = Catch("L491") /\ exc' = out /\ idx' = idx
    /\ UNCHANGED << decodeVars, poolVars, unitVars, r_convert, listeners, pending, prefer_copy, fi, fs, format, archive, arg,
                    delivered, lastNotify, children, tasks, failedBuild, imported, task,
                    dispatch, taskSt, result >>

\* Line 520: return imported, back in run at line 284.
ReturnCollection ==
    /\ pc = "L520"
    /\ pc' = "L284"
    /\ UNCHANGED << decodeVars, poolVars, unitVars, r_convert, listeners, pending, prefer_copy, exc, fi, fs, format, archive,
                    arg, delivered, lastNotify, children, idx, tasks, failedBuild, imported,
                    task, dispatch, taskSt, execCount, result >>

\* ------------------------------------------------------------------ concurrent units
\* Several FileImporter.run executions (import units) on one filesystem, each
\* through its relocation steps (lines 193-290). A unit may be the import of
\* a child of a collection: its pending file then lies in the extracted tree
\* of its parent, which is another import unit.
Units == 1..MaxUnits

\* The names unique_name_generator may return (line 195).
Names == 1..MaxNames

\* The owner of a directory left by an import that ended earlier.
Earlier == MaxUnits + 1

\* Mutant: mkdir(exist_ok=True).
MkdirExistOk(owner) == TRUE

\* Line 423: directory.mkdir() makes the directory when there is none under
\* that name (owner 0) and raises FileExistsError otherwise.
MkdirMakes(owner) == owner = 0

UnitFails(u) == [unit EXCEPT ![u].pc = "failed", ![u].exc = "FileErrorProblem"]

\* Lines 193-197: the name of the upload directory is generated.
UGenerate(u) ==
    /\ unit[u].pc = "L193"
    /\ \E n \in Names : unit' = [unit EXCEPT ![u].dir = n, ![u].pc = "L198"]
    /\ UNCHANGED << dirs, tree, parentTree, runVars, poolVars, decodeVars >>

\* Line 198: mkdir(self.upload_dir); a failure ends the unit with
\* FileErrorProblem (lines 424-426, 318-323).
UMkdir(u) ==
    /\ unit[u].pc = "L198"
    /\ \E oserror \in BOOLEAN :
         IF ~oserror /\ MkdirMakes(dirs[unit[u].dir])
         THEN /\ dirs' = [dirs EXCEPT ![unit[u].dir] = IF @ = 0 THEN u ELSE @]
              /\ unit' = [unit EXCEPT ![u].pc = "L206"]
         ELSE /\ dirs' = dirs
              /\ unit' = UnitFails(u)
    /\ UNCHANGED << tree, parentTree, runVars, poolVars, decodeVars >>

\* Line 206: the pending file is moved (or copied) to upload_dir / name; a
\* moved file is no longer at its pending location.
UMove(u) ==
    /\ unit[u].pc = "L206"
    /\ \E oserror \in BOOLEAN :
         IF ~oserror
         THEN /\ tree' = [tree EXCEPT ![unit[u].dir] =
                              @ \cup {[path |-> "upload_path", by |-> u]}]
              /\ parentTree' = IF unit[u].extracted /\ ~unit[u].copy
                               THEN [parentTree EXCEPT ![u] = "none"]
                               ELSE parentTree
              /\ unit' = [unit EXCEPT
                             ![u].pc = AfterMoveOfPending(unit[u].copy, unit[u])]
         ELSE /\ tree' = tree
              /\ parentTree' = parentTree
              /\ unit' = UnitFails(u)
    /\ UNCHANGED << dirs, runVars, poolVars, decodeVars >>

\* Line 211: mksymlink(self.pending_file, self.upload_path) makes a link at
\* the pending location, inside the extracted tree of the parent.
ULink(u) ==
    /\ unit[u].pc = "L211"
    /\ \E oserror \in BOOLEAN :
         IF ~oserror
         THEN /\ parentTree' = [parentTree EXCEPT ![u] = "link"]
              /\ unit' = [unit EXCEPT ![u].pc = "L213"]
         ELSE /\ parentTree' = parentTree
              /\ unit' = UnitFails(u)
    /\ UNCHANGED << dirs, tree, runVars, poolVars, decodeVars >>

\* Lines 239-240: mkdir(self.processed_dir) under the upload directory.
UProcessed(u) ==
    /\ unit[u].pc = "L213"
    /\ \E oserror \in BOOLEAN :
         IF ~oserror
         THEN /\ tree' = [tree EXCEPT ![unit[u].dir] =
                              @ \cup {[path |-> "processed_dir", by |-> u]}]
              /\ unit' = [unit EXCEPT ![u].pc = "L290"]
         ELSE /\ tree' = tree
              /\ unit' = UnitFails(u)
    /\ UNCHANGED << dirs, parentTree, runVars, poolVars, decodeVars >>

\* Lines 246, 290: the original path is linked under the processed directory.
UOriginal(u) ==
    /\ unit[u].pc = "L290"
    /\ \E oserror \in BOOLEAN :
         IF ~oserror
         THEN /\ tree' = [tree EXCEPT ![unit[u].dir] =
                              @ \cup {[path |-> "original_path", by |-> u]}]
              /\ unit' = [unit EXCEPT ![u].pc = "done"]
         ELSE /\ tree' = tree
              /\ unit' = UnitFails(u)
    /\ UNCHANGED << dirs, parentTree, runVars, poolVars, decodeVars >>


\* ------------------------------------------------------------------ shared worker pool
\* Lines 495-518 when the import of an archive is itself a task of the worker
\* pool that executes the tasks of its children: the parent task submits the
\* group (line 510) and waits for it in r.get() (line 511), which has no
\* timeout. The broker and the result backend work: r.get() ends when every
\* child task has ended, and raises when a child task has failed.
Parents == 1..MaxParents
Kids == 1..MaxKids

\* Mutant: a parent that waits for its group gives its worker back.
HoldsWorkerRunningOnly(st) == st = "running"

\* A task occupies a worker from the moment a worker takes it to its end; the
\* wait of line 511 is part of the parent task.
HoldsWorker(st) == st \in {"running", "joining"}

Busy ==
    Cardinality({p \in Parents : HoldsWorker(parentJob[p])})
    + Cardinality({c \in Parents \X Kids : childJob[c[1]][c[2]] = "running"})

Free == Busy < MaxWorkers

\* A worker takes the import task of an archive.
PoolStart(p) ==
    /\ parentJob[p] = "queued"
    /\ Free
    /\ parentJob' = [parentJob EXCEPT ![p] = "running"]
    /\ UNCHANGED << childJob, runVars, unitVars, decodeVars >>

\* Lines 497-511: the parent builds the group, submits it and enters r.get().
PoolSubmit(p) ==
    /\ parentJob[p] = "running"
    /\ parentJob' = [parentJob EXCEPT ![p] = "joining"]
    /\ childJob' = [childJob EXCEPT ![p] = [k \in Kids |-> "queued"]]
    /\ UNCHANGED << runVars, unitVars, decodeVars >>

\* A worker takes a submitted child task.
PoolChildStart(p, k) ==
    /\ childJob[p][k] = "queued"
    /\ Free
    /\ childJob' = [childJob EXCEPT ![p][k] = "running"]
    /\ UNCHANGED << parentJob, runVars, unitVars, decodeVars >>

\* A child task ends, with success or with an exception.
PoolChildEnd(p, k) ==
    /\ childJob[p][k] = "running"
    /\ \E st \in {"ok", "failed"} : childJob' = [childJob EXCEPT ![p][k] = st]
    /\ UNCHANGED << parentJob, runVars, unitVars, decodeVars >>

\* Line 511 returns: every task of the group has ended with success; the
\* parent task goes on to line 520 and ends.
PoolJoin(p) ==
    /\ parentJob[p] = "joining"
    /\ \A k \in Kids : childJob[p][k] = "ok"
    /\ parentJob' = [parentJob EXCEPT ![p] = "done"]
    /\ UNCHANGED << childJob, runVars, unitVars, decodeVars >>

\* Line 511 raises the exception of a failed child task: lines 512-518 import
\* the children in-process, within the parent task, which then ends.
PoolFallback(p) ==
    /\ parentJob[p] = "joining"
    /\ \E k \in Kids : childJob[p][k] = "failed"
    /\ parentJob' = [parentJob EXCEPT ![p] = "done"]
    /\ UNCHANGED << childJob, runVars, unitVars, decodeVars >>


\* ------------------------------------------------------------------ decode_key
\* decode_key (lines 738-748). The argument is base64 text: a sequence of
\* base64 digits (each a number of six bits, 0..63) followed by pad characters.
\* SecretBox.KEY_SIZE (line 741) is 32 bytes.
NACL_KEY_LENGTH == 32

\* Well-formed base64 text of up to MaxGroups groups of four characters: the
\* digits and the pad characters make whole groups, with at most two pad
\* characters, in the last group only. The digit at position i is
\* (i + shift) % 64, so that the bytes of the material differ with position.
KeyTexts ==
    {[digits |-> [i \in 1..n |-> (i + sh) % 64], pad |-> q] :
        n \in 0..(4 * MaxGroups), q \in 0..2, sh \in 0..MaxShift}

WellFormed(k) ==
    /\ (Len(k.digits) + k.pad) % 4 = 0
    /\ Len(k.digits) + k.pad <= 4 * MaxGroups
    /\ k.pad > 0 => Len(k.digits) % 4 = 4 - k.pad

\* The j-th byte of the bit string made of the digits d, six bits per digit.
B64Byte(d, j) ==
    LET bit == 8 * (j - 1)
        i == (bit \div 6) + 1
        o == bit % 6
    IN  CASE o = 0 -> d[i] * 4 + (d[i + 1] \div 16)
          [] o = 2 -> (d[i] % 16) * 16 + (d[i + 1] \div 4)
          [] o = 4 -> (d[i] % 4) * 64 + d[i + 1]

\* base64.b64decode (line 742) of well-formed text: every whole byte of the
\* bit string of the digits; the bits left over in the last digit are dropped.
b64decode(k) ==
    [j \in 1..((6 * Len(k.digits)) \div 8) |-> B64Byte(k.digits, j)]

\* Mutant: the decoded material is taken whole.
SecretKeyWhole(m) == m

\* Line 742: the slice [-NACL_KEY_LENGTH:], the last NACL_KEY_LENGTH bytes of
\* the material, or all of it when it is shorter.
SecretKey(m) ==
    IF Len(m) <= NACL_KEY_LENGTH THEN m
    ELSE SubSeq(m, Len(m) - NACL_KEY_LENGTH + 1, Len(m))

\* Lines 742-748: the outcome of decode_key for the text k.
decode_key(k) ==
    LET secret_key == SecretKey(b64decode(k))
    IN  IF Len(secret_key) # NACL_KEY_LENGTH
        THEN [status |-> "ValueError", value |-> << >>]
        ELSE [status |-> "PrivateKey", value |-> secret_key]

\* One call of decode_key.
DecodeKey ==
    /\ decoded.status = "none"
    /\ decoded' = decode_key(key)
    /\ UNCHANGED << key, runVars, unitVars, poolVars >>

\* ------------------------------------------------------------------ specification
PendingFiles ==[extracted : BOOLEAN, parent : {"PENDING", "WRITING", "OTHER"},
                 exists : BOOLEAN]

\* No run has begun: the values of the run's variables in the specifications
\* that are not about a run.
RunIdle ==
    /\ listeners = << >>
    /\ pending = [extracted |-> FALSE, parent |-> "PENDING", exists |-> FALSE]
    /\ prefer_copy = FALSE
    /\ pc = "L182"
    /\ exc = "none"
    /\ fi = NoFields
    /\ fs = [p \in Paths |-> NoEntry]
    /\ format = NoFormat
    /\ archive = FALSE
    /\ arg = [op |-> "none", path |-> "None"]
    /\ delivered = << >>
    /\ lastNotify = [n |-> 0, e |-> "none", at |-> "none", out |-> << >>,
                     escaped |-> FALSE]
    /\ children = << >>
    /\ idx = 1
    /\ tasks = << >>
    /\ failedBuild = {}
    /\ imported = << >>
    /\ task = "none"
    /\ dispatch = "none"
    /\ taskSt = [c \in 1..MaxChildren |-> "none"]
    /\ execCount = [c \in 1..MaxChildren |-> 0]
    /\ result = << >>
    /\ r_convert = "none"

\* No unit relocates a file.
UnitsIdle ==
    /\ unit = << >>
    /\ dirs = << >>
    /\ tree = << >>
    /\ parentTree = << >>

\* No task has been handed to a worker pool.
PoolIdle ==
    /\ parentJob = << >>
    /\ childJob = << >>

\* decode_key has not been called.
DecodeIdle ==
    /\ key = << >>
    /\ decoded = [status |-> "none", value |-> << >>]

InitWith(kinds) ==
    /\ listeners \in SeqUpTo(kinds, MaxListeners)
    /\ pending \in PendingFiles
    /\ prefer_copy \in BOOLEAN
    /\ pc = "L182"
    /\ exc = "none"
    /\ fi = NoFields
    /\ fs = [p \in Paths |-> IF p = "pending" /\ pending.exists THEN FileEntry
                             ELSE NoEntry]
    /\ format = NoFormat
    /\ archive = FALSE
    /\ arg = [op |-> "none", path |-> "None"]
    /\ delivered = << >>
    /\ lastNotify = [n |-> 0, e |-> "none", at |-> "none", out |-> << >>,
                     escaped |-> FALSE]
    /\ children = << >>
    /\ idx = 1
    /\ tasks = << >>
    /\ failedBuild = {}
    /\ imported = << >>
    /\ task = "none"
    /\ dispatch = "none"
    /\ taskSt = [c \in 1..MaxChildren |-> "none"]
    /\ execCount = [c \in 1..MaxChildren |-> 0]
    /\ result = << >>
    /\ r_convert = "none"
    /\ UnitsIdle
    /\ PoolIdle
    /\ DecodeIdle

\* Listeners that keep the listener contract: a handler, when there is one,
\* returns.
Init == InitWith(SoundKinds)

\* Listeners of any behaviour: without handlers, or with handlers that raise.
InitAnyListener == InitWith(AnyKinds)

Next ==
    \/ NotifyStep
    \/ CheckPending
    \/ MkdirStep
    \/ MoveStep
    \/ SymlinkStep
    \/ DetectFormat
    \/ Extract
    \/ MatchExtracted
    \/ CheckIntegrity
    \/ Convert
    \/ MatchSpatial
    \/ BuildHistogram
    \/ ReturnStep
    \/ StartCollection
    \/ BuildTask
    \/ Dispatch
    \/ Submit
    \/ WorkerExec
    \/ Join
    \/ SeqExec
    \/ ReturnCollection

Spec == Init /\ [][Next]_vars

SpecAnyListener == InitAnyListener /\ [][Next]_vars

\* Concurrent import units: each is about to generate the name of its upload
\* directory; it imports a file of the pending area or a child extracted in
\* the tree of its parent, with either value of prefer_copy; the directory of
\* an earlier import may exist (the names being interchangeable, under the
\* first one). No single run is followed in this specification: its
\* variables stay as they are.
InitUnits ==
    /\ unit \in [Units -> [pc : {"L193"}, dir : {0}, extracted : BOOLEAN,
                           copy : BOOLEAN, exc : {"none"}]]
    /\ dirs \in {d \in [Names -> {0, Earlier}] : \A n \in Names \ {1} : d[n] = 0}
    /\ tree = [n \in Names |-> {}]
    /\ parentTree = [u \in Units |-> IF unit[u].extracted THEN "file" ELSE "-"]
    /\ RunIdle
    /\ PoolIdle
    /\ DecodeIdle

NextUnits ==
    \E u \in Units :
        \/ UGenerate(u)
        \/ UMkdir(u)
        \/ UMove(u)
        \/ ULink(u)
        \/ UProcessed(u)
        \/ UOriginal(u)

SpecUnits == InitUnits /\ [][NextUnits]_vars

\* The import tasks of MaxParents archives are in the queue of the pool.
InitPool ==
    /\ parentJob = [p \in Parents |-> "queued"]
    /\ childJob = [p \in Parents |-> [k \in Kids |-> "none"]]
    /\ RunIdle
    /\ UnitsIdle
    /\ DecodeIdle

NextPool ==
    \E p \in Parents :
        \/ PoolStart(p)
        \/ PoolSubmit(p)
        \/ PoolJoin(p)
        \/ PoolFallback(p)
        \/ \E k \in Kids : PoolChildStart(p, k) \/ PoolChildEnd(p, k)

SpecPool == InitPool /\ [][NextPool]_vars

\* decode_key is about to be called with some well-formed base64 text.
InitDecode ==
    /\ key \in {k \in KeyTexts : WellFormed(k)}
    /\ decoded = [status |-> "none", value |-> << >>]
    /\ RunIdle
    /\ UnitsIdle
    /\ PoolIdle

NextDecode == DecodeKey

SpecDecode == InitDecode /\ [][NextDecode]_vars

\* ------------------------------------------------------------------ properties
\* The event kinds listener l has received, in order.
EventsOf(l) ==
    LET d == SelectSeq(delivered, LAMBDA x : x.l = l)
    IN [i \in 1..Len(d) |-> d[i].e]

Count(ev, S) == Cardinality({i \in 1..Len(ev) : ev[i] \in S})

Last(ev) == IF Len(ev) = 0 THEN "none" ELSE ev[Len(ev)]

\* run has ended: it returned, or an exception left it.
Done == pc \in {"returned", "raised"}

\* The run took the collection branch (line 278 is reached on that branch only).
CollectionBranch == fi.extracted_dir # "None"

StartEvents == {"START_DATA_EXTRACTION", "START_FORMAT_DETECTION", "START_UNPACKING",
                "START_INTEGRITY_CHECK", "START_SPATIAL_DEPLOY", "START_CONVERSION",
                "START_HISTOGRAM_DEPLOY"}

\* The END event and the error events of the phase a START event opens (the
\* error events of the phases nested in spatial deploy count for it too).
ClosingEvents(start) ==
    CASE start = "START_DATA_EXTRACTION" ->
            {"END_DATA_EXTRACTION", "FILE_NOT_FOUND", "FILE_NOT_MOVED"}
      [] start = "START_FORMAT_DETECTION" -> {"END_FORMAT_DETECTION", "ERROR_NO_FORMAT"}
      [] start = "START_UNPACKING" -> {"END_UNPACKING", "ERROR_UNPACKING"}
      [] start = "START_INTEGRITY_CHECK" ->
            {"END_INTEGRITY_CHECK", "ERROR_INTEGRITY_CHECK"}
      [] start = "START_SPATIAL_DEPLOY" ->
            {"END_SPATIAL_DEPLOY", "ERROR_CONVERSION", "ERROR_NO_FORMAT",
             "ERROR_INTEGRITY_CHECK"}
      [] start = "START_CONVERSION" -> {"END_CONVERSION", "ERROR_CONVERSION"}
      [] start = "START_HISTOGRAM_DEPLOY" -> {"END_HISTOGRAM_DEPLOY", "ERROR_HISTOGRAM"}

ClosedBy(ev, i, S) == \E j \in (i + 1)..Len(ev) : ev[j] \in S

Precedes(ev, a, b) ==
    \A i \in 1..Len(ev) : ev[i] = b => \E j \in 1..(i - 1) : ev[j] = a

\* C3: the phases run in order. In the events of every listener, at any time:
\* START_FORMAT_DETECTION comes after END_DATA_EXTRACTION, START_UNPACKING
\* after END_FORMAT_DETECTION, START_INTEGRITY_CHECK after END_FORMAT_DETECTION
\* and, when unpacking was started, after END_UNPACKING, START_SPATIAL_DEPLOY
\* after END_INTEGRITY_CHECK, START_HISTOGRAM_DEPLOY after END_SPATIAL_DEPLOY,
\* and END_SUCCESSFUL_IMPORT after END_HISTOGRAM_DEPLOY.
C3_PhaseOrder ==
    \A l \in 1..Len(listeners) :
        LET ev == EventsOf(l)
        IN /\ Len(ev) > 0 => ev[1] = "START_DATA_EXTRACTION"
           /\ Precedes(ev, "END_DATA_EXTRACTION", "START_FORMAT_DETECTION")
           /\ Precedes(ev, "END_FORMAT_DETECTION", "START_UNPACKING")
           /\ Precedes(ev, "END_FORMAT_DETECTION", "START_INTEGRITY_CHECK")
           /\ \A i \in 1..Len(ev) :
                (ev[i] = "START_INTEGRITY_CHECK"
                    /\ \E j \in 1..(i - 1) : ev[j] = "START_UNPACKING")
                => \E k \in 1..(i - 1) : ev[k] = "END_UNPACKING"
           /\ Precedes(ev, "END_INTEGRITY_CHECK", "START_SPATIAL_DEPLOY")
           /\ Precedes(ev, "END_SPATIAL_DEPLOY", "START_HISTOGRAM_DEPLOY")
           /\ Precedes(ev, "END_HISTOGRAM_DEPLOY", "END_SUCCESSFUL_IMPORT")

\* A successful run over an archive holding a multi-file image that needs
\* conversion: every phase was entered.
C3_Witness ==
    /\ pc = "returned"
    /\ Len(listeners) > 0
    /\ Count(EventsOf(1), {"START_UNPACKING"}) = 1
    /\ Count(EventsOf(1), {"START_CONVERSION"}) = 1
    /\ Last(EventsOf(1)) = "END_SUCCESSFUL_IMPORT"

\* C4 as stated: once the concurrent path has raised and run has ended with no
\* child task left in the queue, every constructed child task has been
\* executed exactly once in total.
C4_FallbackExactlyOnce ==
    (dispatch = "fallback" /\ Done /\ \A c \in DOMAIN taskSt : taskSt[c] # "queued")
    => \A i \in 1..Len(tasks) : execCount[tasks[i]] = 1

\* C5: a pending file that does not exist, or that is neither in the pending
\* area nor in the writing area nor extracted, is rejected: the filesystem
\* stays as it was when run was called, no directory field is set, and run
\* ends with FilepathNotFoundProblem after START_DATA_EXTRACTION,
\* FILE_NOT_FOUND, FILE_ERROR.
C5_RejectedBeforeMutation ==
    (\/ ~pending.exists
     \/ ~pending.extracted /\ pending.parent \notin {"PENDING", "WRITING"})
    => /\ fs = [p \in Paths |-> IF p = "pending" /\ pending.exists THEN FileEntry
                                ELSE NoEntry]
       /\ fi = NoFields
       /\ Done => /\ pc = "raised"
                  /\ exc = "FilepathNotFoundProblem"
                  /\ \A l \in 1..Len(listeners) :
                        EventsOf(l) = << "START_DATA_EXTRACTION", "FILE_NOT_FOUND",
                                         "FILE_ERROR" >>

\* An existing file outside the sanctioned areas has been rejected.
C5_Witness ==
    /\ pc = "raised"
    /\ exc = "FilepathNotFoundProblem"
    /\ pending = [extracted |-> FALSE, parent |-> "OTHER", exists |-> TRUE]
    /\ Len(listeners) > 0
    /\ Last(EventsOf(1)) = "FILE_ERROR"

C7_RegistrationOrderAndSkip ==
    /\ \A i, j \in 1..Len(delivered) :
          i < j => \/ delivered[i].n < delivered[j].n
                   \/ delivered[i].n = delivered[j].n /\ delivered[i].l < delivered[j].l
    /\ \A i \in 1..Len(lastNotify.out) :
          /\ lastNotify.out[i].l = i
          /\ (lastNotify.out[i].o = "nomethod" /\ i < Len(listeners))
                => Len(lastNotify.out) > i
    /\ (\A l \in 1..Len(listeners) : listeners[l] # "raising")
          => /\ exc # "ListenerError"
             /\ \A l \in 1..Len(listeners) :
                   listeners[l] = "stdout" => Len(EventsOf(l)) = lastNotify.n

\* A listener without handlers is registered before a listener with handlers,
\* which has received the events of a whole successful run.
C7_Witness ==
    /\ listeners = << "bare", "stdout" >>
    /\ pc = "returned"
    /\ Last(EventsOf(2)) = "END_SUCCESSFUL_IMPORT"
    /\ EventsOf(1) = << >>

\* C8: a failed task construction drops that child only. During the loop the
\* tasks are the children handled so far whose construction succeeded, in
\* listing order; at the dispatch and after it they are all the children whose
\* construction succeeded; a submitted group holds every one of them; and the
\* construction failure is never in flight in run.
C8_BuildFailureDropsOneChild ==
    /\ exc # "ListenerBuildError"
    /\ pc \in {"L471", "L475"} =>
          tasks = SelectSeq(SubSeq(children, 1, idx - 1), LAMBDA c : c \notin failedBuild)
    /\ pc \in {"L493", "L497", "L511", "L490", "L520", "L284", "L288", "returned"} =>
          tasks = SelectSeq(children, LAMBDA c : c \notin failedBuild)
    /\ dispatch = "celery" => \A i \in 1..Len(tasks) : taskSt[tasks[i]] # "none"

\* The construction failed for one child; the other one was built, submitted
\* and executed, and run returned.
C8_Witness ==
    /\ pc = "returned"
    /\ Cardinality(failedBuild) = 1
    /\ Len(children) = 2
    /\ Len(tasks) = 1
    /\ dispatch = "celery"
    /\ execCount[tasks[1]] = 1

\* C9 as stated: the list run returns on the collection branch holds the
\* imported children, one per constructed task (K - 1 of them when one of K
\* constructions failed).
C9_ReturnsImportedChildren ==
    (pc = "returned" /\ CollectionBranch) => Len(result) = Len(tasks)

\* C10: on the collection branch the parent never enters the integrity check
\* nor the spatial or histogram deployment, and its original, spatial and
\* histogram representations stay unset.
C10_CollectionEndsTheRun ==
    CollectionBranch =>
        /\ pc \in {"L279", "L447", "L453", "L471", "L475", "L493", "L497", "L511",
                   "L490", "L520", "L284", "L288", "L319", "returned", "raised"}
        /\ fi.original = "None"
        /\ fi.spatial_path = "None" /\ fi.spatial = "None"
        /\ fi.histogram_path = "None" /\ fi.histogram = "None"
        /\ \A p \in {"spatial_path", "histogram_path"} : fs[p] = NoEntry
        /\ \A l \in 1..Len(listeners) :
              Count(EventsOf(l), {"START_INTEGRITY_CHECK", "START_SPATIAL_DEPLOY",
                                  "START_CONVERSION", "START_HISTOGRAM_DEPLOY",
                                  "END_SUCCESSFUL_IMPORT"}) = 0

\* The parent of a collection with children has returned.
C10_Witness ==
    /\ pc = "returned"
    /\ CollectionBranch
    /\ Len(tasks) > 0
    /\ Len(listeners) > 0
    /\ Last(EventsOf(1)) = "END_UNPACKING"

\* import_collection has returned to run (line 520 and after).
CollectionReturned == pc \in {"L520", "L284", "L288", "returned"}

Completed(st) == st \in {"ok", "failed"}

\* C12 as stated: with concurrent dispatch, when import_collection has
\* returned (and so before and after the END_UNPACKING of the parent), every
\* submitted child task has completed.
C12_ReturnsAfterEveryChild ==
    (dispatch \in {"celery", "fallback"} /\ CollectionReturned)
    => \A c \in DOMAIN taskSt : taskSt[c] # "none" => Completed(taskSt[c])

\* run has returned from the plain pipeline (line 317).
ReturnedImage == pc = "returned" /\ ~CollectionBranch

\* C13: after a successful non-collection run the processed directory lies
\* under the upload directory, and the original, spatial and histogram paths
\* lie under the processed directory with the stems ORIGINAL_STEM,
\* SPATIAL_STEM and HISTOGRAM_STEM; each of them exists and its
\* representation is set.
C13_RolesByStem ==
    ReturnedImage =>
        /\ fi.processed_dir # "None" /\ Parent(fi.processed_dir) = fi.upload_dir
        /\ Stem(fi.processed_dir) = PROCESSED_DIR
        /\ Parent(fi.original_path) = fi.processed_dir
        /\ Stem(fi.original_path) = ORIGINAL_STEM
        /\ Parent(fi.spatial_path) = fi.processed_dir
        /\ Stem(fi.spatial_path) = SPATIAL_STEM
        /\ Parent(fi.histogram_path) = fi.processed_dir
        /\ Stem(fi.histogram_path) = HISTOGRAM_STEM
        /\ \A p \in {fi.original_path, fi.spatial_path, fi.histogram_path} :
              Exists(fs, p)
        /\ fi.original = "Image" /\ fi.spatial = "Image" /\ fi.histogram = "Histogram"

\* An archive holding a multi-file image that needs conversion was imported.
C13_Witness ==
    /\ ReturnedImage
    /\ archive
    /\ format.needConv
    /\ fi.original_path = "new_original_path"
    /\ fs["spatial_path"] = FileEntry

\* C14: a format that needs no conversion gets no conversion event; once its
\* spatial representation is set, the spatial path is a link to the original
\* path and both resolve to the same file; and between the start of
\* deploy_spatial and that link nothing else is written.
C14_NoConversionLinksToOriginal ==
    /\ [](~format.needConv =>
            /\ \A l \in 1..Len(listeners) :
                  Count(EventsOf(l), {"START_CONVERSION", "END_CONVERSION",
                                      "ERROR_CONVERSION"}) = 0
            /\ fi.spatial = "Image" =>
                  /\ fs[fi.spatial_path] = LinkTo(fi.original_path)
                  /\ Resolve(fs, fi.spatial_path) = Resolve(fs, fi.original_path))
    /\ [][(pc \in {"L330", "L386"} /\ ~format.needConv) =>
            \/ fs' = fs
            \/ fs' = [fs EXCEPT !["spatial_path"] = LinkTo(fi.original_path)]]_vars

\* A plain file that needs no conversion was imported: the spatial path links
\* to the original path, which links to the upload path.
C14_Witness ==
    /\ ReturnedImage
    /\ ~archive
    /\ ~format.needConv
    /\ fs["spatial_path"] = LinkTo("original_path")
    /\ Resolve(fs, "spatial_path") = "upload_path"
    /\ Len(listeners) > 0

\* The event each primitive delivers when its operation fails.
FailureEvent(op) == IF op = "move" THEN "FILE_NOT_MOVED" ELSE "FILE_ERROR"

\* C15: no exception of a filesystem operation is ever in flight in run; a
\* failing mkdir, move or mksymlink notifies the listeners (FILE_ERROR for
\* mkdir and mksymlink, FILE_NOT_MOVED for move) with the path it failed on,
\* every listener receives that event, and FileErrorProblem is then in flight
\* at the except clause of run; a run in which a primitive failed ends with
\* FileErrorProblem.
C15_PrimitivesConvertFsErrors ==
    /\ exc \notin FsErrors
    /\ pc \in {"L425", "L436", "L447"} =>
          /\ arg.op = (CASE pc = "L425" -> "mkdir" [] pc = "L436" -> "move"
                         [] pc = "L447" -> "mksymlink")
          /\ arg.path \in Paths
    /\ lastNotify.at \in {"L425", "L436", "L447"} =>
          /\ pc = "L319"
          /\ exc = "FileErrorProblem"
          /\ lastNotify.e = FailureEvent(arg.op)
          /\ \A l \in 1..Len(listeners) :
                \E i \in 1..Len(delivered) :
                    delivered[i] = [n |-> lastNotify.n, l |-> l,
                                    e |-> FailureEvent(arg.op), p |-> arg.path]
    /\ (arg.op # "none" /\ Done) => (pc = "raised" /\ exc = "FileErrorProblem")

\* The move of the pending file failed; both listeners have received
\* FILE_NOT_MOVED for the pending file.
C15_Witness ==
    /\ lastNotify.at = "L436"
    /\ arg = [op |-> "move", path |-> "pending"]
    /\ Len(listeners) = 2
    /\ pc = "L319"
    /\ exc = "FileErrorProblem"

\* The six kinds of the error taxonomy.
TaxonomyKinds == {"FilepathNotFoundProblem", "FileErrorProblem",
                  "NoMatchingFormatProblem", "ArchiveError", "ImageParsingProblem",
                  "FormatConversionProblem"}

PastAllocation == {"L206", "L211", "L213", "L290", "done"}

\* C17: at any time, a unit that went on after the allocation made its upload
\* directory itself, so no two such units have the same upload directory; and
\* a unit whose generated name already exists when it calls mkdir ends with
\* FileErrorProblem and leaves the directory to the one that made it.
C17_OwnMkdirOrFileError ==
    /\ [](/\ \A u \in Units :
                unit[u].pc \in PastAllocation => dirs[unit[u].dir] = u
          /\ \A u, v \in Units :
                (u # v /\ unit[u].pc \in PastAllocation /\ unit[v].pc \in PastAllocation)
                => unit[u].dir # unit[v].dir)
    /\ [][\A u \in Units :
            (unit[u].pc = "L198" /\ unit'[u].pc # "L198" /\ dirs[unit[u].dir] # 0)
            => /\ unit'[u].pc = "failed"
               /\ unit'[u].exc = "FileErrorProblem"
               /\ dirs' = dirs]_vars

\* Two units generated the same name: the first made the directory and went
\* to its end, the second failed.
C17_Witness ==
    /\ unit[1].pc = "done"
    /\ unit[2].pc = "failed"
    /\ unit[1].dir = unit[2].dir
    /\ dirs[unit[1].dir] = 1
    /\ tree[unit[2].dir] = {[path |-> p, by |-> 1] :
                               p \in {"upload_path", "processed_dir", "original_path"}}

\* C18 as stated: every path written in an upload directory was written by
\* the unit that made the directory, and the extracted tree of the parent is
\* as it was when the children were listed.
C18_NoWriteInAnotherUnitsTree ==
    /\ \A n \in Names : \A e \in tree[n] : e.by = dirs[n]
    /\ \A u \in Units : unit[u].extracted => parentTree[u] = "file"

\* C18 amended: every path written in an upload directory was written by the
\* unit that made the directory; in the extracted tree of its parent a child
\* import writes at its own pending location and nowhere else: with
\* prefer_copy the file stays there, without it the file is moved out and a
\* link takes its place, and no other unit changes that location.
C18_OwnTreeAndOwnPendingLocation ==
    /\ [](/\ \A n \in Names : \A e \in tree[n] : e.by = dirs[n]
          /\ \A u \in Units :
                /\ ~unit[u].extracted => parentTree[u] = "-"
                /\ (unit[u].extracted /\ unit[u].copy) => parentTree[u] = "file"
                /\ (unit[u].extracted /\ ~unit[u].copy) =>
                      parentTree[u] = CASE unit[u].pc \in {"L193", "L198", "L206"} -> "file"
                                        [] unit[u].pc = "L211" -> "none"
                                        [] unit[u].pc \in {"L213", "L290", "done"} -> "link"
                                        [] OTHER -> parentTree[u])
    /\ [][\A u \in Units :
            parentTree'[u] # parentTree[u]
            => /\ unit'[u] # unit[u]
               /\ unit[u].pc \in {"L206", "L211"}
               /\ ~unit[u].copy]_vars

\* Two children of one collection were imported without prefer_copy: each
\* left a link at its place in the extracted tree of the parent.
C18_Witness ==
    /\ \A u \in {1, 2} :
          /\ unit[u].pc = "done"
          /\ unit[u].extracted /\ ~unit[u].copy
          /\ parentTree[u] = "link"
    /\ unit[1].dir # unit[2].dir

\* C19: when the data-extraction phase of a pending file marked as extracted
\* has ended, the pending location holds the file itself (prefer_copy) or a
\* link that resolves to the upload path, where the file is (no prefer_copy);
\* and the pending location is written by the move of line 206 and the link
\* of line 211 only, so this stays true to the end of the run.
C19_ExtractedLocationResolves ==
    /\ []((/\ pending.extracted
           /\ \/ pc \in {"L220", "L223"}
              \/ \E i \in 1..Len(delivered) : delivered[i].e = "END_DATA_EXTRACTION")
          => IF prefer_copy
             THEN fs["pending"] = FileEntry /\ Exists(fs, "upload_path")
             ELSE /\ fs["pending"] = LinkTo("upload_path")
                  /\ Resolve(fs, "pending") = "upload_path"
                  /\ fs["upload_path"] = FileEntry)
    /\ [][(fs'["pending"] # fs["pending"] \/ fs'["upload_path"] # fs["upload_path"])
            => pc \in {"L206", "L211"}]_vars

\* An extracted child was moved and the whole run went to its end: the link
\* at its former location resolves to the upload path.
C19_Witness ==
    /\ pending.extracted
    /\ ~prefer_copy
    /\ ReturnedImage
    /\ fs["pending"] = LinkTo("upload_path")
    /\ Resolve(fs, "pending") = "upload_path"

\* C20 as stated: a successful non-collection run returns the one-element
\* list of the upload path the pending file was relocated to, and
\* END_SUCCESSFUL_IMPORT is the last event.
C20_ReturnsUploadLocation ==
    ReturnedImage =>
        /\ result = << "upload_path" >>
        /\ lastNotify.e = "END_SUCCESSFUL_IMPORT"

\* C20 amended: a successful non-collection run returns a one-element list
\* and END_SUCCESSFUL_IMPORT is its last event; the element is the upload
\* path the pending file was relocated to for a plain file, and the renamed
\* original path under the processed directory for an archive that unpacked
\* to a multi-file image (the value upload_path has since line 276).
C20_ReturnsUploadOrOriginalPath ==
    ReturnedImage =>
        /\ Len(result) = 1
        /\ result[1] = fi.upload_path
        /\ result[1] = IF archive THEN "new_original_path" ELSE "upload_path"
        /\ archive => result[1] = fi.original_path /\ Parent(result[1]) = fi.processed_dir
        /\ lastNotify.e = "END_SUCCESSFUL_IMPORT"
        /\ \A l \in 1..Len(listeners) : Last(EventsOf(l)) = "END_SUCCESSFUL_IMPORT"

\* An archive that unpacked to a multi-file image was imported: run returned
\* the original path.
C20_Witness ==
    /\ ReturnedImage
    /\ archive
    /\ result = << "new_original_path" >>
    /\ Len(listeners) > 0
    /\ Last(EventsOf(1)) = "END_SUCCESSFUL_IMPORT"

\* ------------------------------------------------------------ C21 .. C28
\* The listeners that received event e about path p.
Received(l, e, p) ==
    \E i \in 1..Len(delivered) :
        delivered[i].l = l /\ delivered[i].e = e /\ delivered[i].p = p

OriginalPaths == {"original_path", "new_original_path"}

DeployStarts == {"START_SPATIAL_DEPLOY", "START_HISTOGRAM_DEPLOY"}

\* C21 as stated: after the END_INTEGRITY_CHECK of the original
\* representation, spatial deployment starts.
C21_NoErrorsStartsSpatialDeploy ==
    lastNotify.at = "L303" => pc = "L330"

\* C21, amended: the integrity check of the original representation ends at
\* ERROR_INTEGRITY_CHECK or at END_INTEGRITY_CHECK. With errors, every listener
\* receives ERROR_INTEGRITY_CHECK about the original path, the run raises
\* ImageParsingProblem through FILE_ERROR, and no deployment is ever started
\* nor a spatial or histogram representation set. Without errors, every
\* listener receives END_INTEGRITY_CHECK and spatial deployment starts when the
\* format is spatial; otherwise the run raises NotImplementedError.
C21_IntegrityCheckOfOriginal ==
    /\ [](\A l \in 1..Len(listeners) :
            (\E p \in OriginalPaths : Received(l, "ERROR_INTEGRITY_CHECK", p))
            => /\ Count(EventsOf(l), DeployStarts) = 0
               /\ fi.spatial = "None" /\ fi.histogram = "None"
               /\ pc \in {"L319", "raised"}
               /\ exc = "ImageParsingProblem")
    /\ [][/\ pc = "L296" => pc' \in {"L298", "L303"}
          /\ pc = "L298" =>
                /\ pc' = "L319" /\ exc' = "ImageParsingProblem"
                /\ \A l \in 1..Len(listeners) :
                      /\ Last(EventsOf(l)') = "ERROR_INTEGRITY_CHECK"
                      /\ Received(l, "ERROR_INTEGRITY_CHECK", fi.original_path)'
          /\ (pc = "L319" /\ exc = "ImageParsingProblem") =>
                pc' = "raised" /\ exc' = exc /\ fi' = fi
          /\ pc = "L303" =>
                /\ \A l \in 1..Len(listeners) :
                      Last(EventsOf(l)') = "END_INTEGRITY_CHECK"
                /\ IF format.spatial THEN pc' = "L330"
                   ELSE pc' = "L319" /\ exc' = "NotImplementedError"]_vars

\* The original representation has integrity errors and the run has raised.
C21_Witness ==
    /\ pc = "raised" /\ exc = "ImageParsingProblem"
    /\ Len(listeners) = MaxListeners
    /\ \A l \in 1..Len(listeners) :
          Received(l, "ERROR_INTEGRITY_CHECK", fi.original_path)
    /\ fi.spatial_path = "None"

\* format.convert was called and did not both return success and leave a file
\* at the target spatial path.
ConversionUnsuccessful ==
    \/ r_convert \in {"false", "raise"}
    \/ r_convert = "true" /\ ~Exists(fs, "spatial_path")

\* C22: when the format needs conversion, END_CONVERSION and
\* END_SPATIAL_DEPLOY are reached, and a spatial representation is set, only
\* if the conversion returned success and the target spatial path exists; if
\* the conversion returned failure, left no file or raised, the run is in the
\* error path of the conversion or has raised FormatConversionProblem, no
\* listener has received END_CONVERSION or END_SPATIAL_DEPLOY, and no spatial
\* representation is set.
C22_ConversionSucceedsOrProblem ==
    /\ (format.needConv /\
            (\/ pc \in {"L356", "L359", "L390"}
             \/ fi.spatial # "None"
             \/ \E l \in 1..Len(listeners) :
                   Count(EventsOf(l), {"END_CONVERSION", "END_SPATIAL_DEPLOY"}) > 0))
        => r_convert = "true" /\ Exists(fs, "spatial_path")
    /\ ConversionUnsuccessful
        => /\ format.needConv
           /\ fi.spatial = "None"
           /\ pc \in {"L344", "L350", "L319", "raised"}
           /\ pc \in {"L319", "raised"} => exc = "FormatConversionProblem"
           /\ \A l \in 1..Len(listeners) :
                 Count(EventsOf(l), {"END_CONVERSION", "END_SPATIAL_DEPLOY"}) = 0

\* The conversion returned success without an output file, and the run raised.
C22_Witness ==
    /\ r_convert = "true" /\ ~Exists(fs, "spatial_path")
    /\ pc = "raised" /\ exc = "FormatConversionProblem"
    /\ Len(listeners) > 0

\* C23 as stated: a run that delivered ERROR_UNPACKING ends with the
\* archive-error kind.
C23_FailsWithArchiveError ==
    (pc = "raised" /\ \E l \in 1..Len(listeners) :
                        Count(EventsOf(l), {"ERROR_UNPACKING"}) > 0)
    => exc = "ArchiveError"

\* C23, amended: when the extraction of a detected archive fails, every
\* listener receives ERROR_UNPACKING once, after START_UNPACKING, and the run
\* raises FileErrorProblem through FILE_ERROR: the kind that a failed mkdir,
\* move or symlink raises, never an archive-error kind.
C23_UnpackingFailureIsFileError ==
    /\ [](/\ \A l \in 1..Len(listeners) :
               LET ev == EventsOf(l)
               IN  Count(ev, {"ERROR_UNPACKING"}) > 0
                   => /\ Count(ev, {"ERROR_UNPACKING"}) = 1
                      /\ Precedes(ev, "START_UNPACKING", "ERROR_UNPACKING")
                      /\ pc \in {"L319", "raised"}
                      /\ exc = "FileErrorProblem"
          /\ (pc = "raised" /\ arg.op \in {"mkdir", "move", "mksymlink"})
               => exc = "FileErrorProblem"
          /\ exc # "ArchiveError")
    /\ [][/\ pc = "L252" => pc' \in {"L254", "L261"}
          /\ pc = "L254" =>
                /\ pc' = "L319" /\ exc' = "FileErrorProblem"
                /\ \A l \in 1..Len(listeners) :
                      Last(EventsOf(l)') = "ERROR_UNPACKING"
          /\ (pc = "L319" /\ exc = "FileErrorProblem") =>
                pc' = "raised" /\ exc' = exc]_vars

\* The extraction failed and the run has raised.
C23_Witness ==
    /\ pc = "raised" /\ exc = "FileErrorProblem"
    /\ arg.op = "none"
    /\ Len(listeners) > 0
    /\ \A l \in 1..Len(listeners) :
          Count(EventsOf(l), {"ERROR_UNPACKING"}) = 1

\* The relocation of line 206 has succeeded: only that step puts an entry at
\* the upload path.
Relocated == Exists(fs, "upload_path")

\* C25: with prefer_copy the pending file is at its source location, as it
\* was, in every state of the run, whatever the outcome. Without prefer_copy,
\* once the relocation has succeeded, the source location holds no file: it is
\* empty, or (for an extracted file, line 211) a link to the upload path; this
\* stays so when a later phase fails. The source location is written by the
\* move of line 206 and the link of line 211 only, both without prefer_copy.
C25_CopyKeepsMoveRemovesSource ==
    /\ []((prefer_copy /\ pending.exists) => fs["pending"] = FileEntry)
    /\ []((~prefer_copy /\ Relocated)
            => /\ fs["pending"] \in {NoEntry, LinkTo("upload_path")}
               /\ fs["upload_path"] = FileEntry)
    /\ [][/\ (pc = "L206" /\ pc' \in {"L211", "L213"})
                => /\ fs'["upload_path"] = fs["pending"]
                   /\ fs'["pending"] = IF prefer_copy THEN fs["pending"] ELSE NoEntry
          /\ fs'["pending"] # fs["pending"]
                => ~prefer_copy /\ pc \in {"L206", "L211"}]_vars

\* Without prefer_copy the file was moved, a later phase failed, and the
\* source location is empty.
C25_Witness ==
    /\ ~prefer_copy /\ Relocated
    /\ pc = "raised" /\ exc = "ImageParsingProblem"
    /\ fs["pending"] = NoEntry

\* C26 as stated, for the tasks of a run with a CytomineListener: when the
\* children are executed in-process (task queue disabled, or fallback) and run
\* has ended, every constructed task has been executed.
C26_EveryTaskExecutedDespiteSiblings ==
    (dispatch \in {"bg", "fallback"} /\ task = "IMPORT_WITH_CYTOMINE" /\ Done)
    => \A i \in 1..Len(tasks) : execCount[tasks[i]] >= 1

\* C27 as stated: when run has ended, every listener has received as many
\* closing events of the conversion phase (END_CONVERSION or ERROR_CONVERSION)
\* as START_CONVERSION events.
C27_OneClosingEventPerConversion ==
    Done => \A l \in 1..Len(listeners) :
        LET ev == EventsOf(l)
        IN  Count(ev, {"END_CONVERSION", "ERROR_CONVERSION"})
                = Count(ev, {"START_CONVERSION"})

\* Every worker is occupied by a parent task that waits in r.get() while all
\* the tasks of its group are in the queue.
PoolExhausted ==
    /\ Cardinality({p \in Parents : parentJob[p] = "joining"}) = MaxWorkers
    /\ \A p \in Parents :
          parentJob[p] = "joining" => \A k \in Kids : childJob[p][k] = "queued"

\* C24: with a worker pool shared by parent and child import tasks, no more
\* tasks hold a worker than there are workers, a waiting parent keeps its
\* worker, and no step is possible from a state in which every worker is
\* occupied by a parent waiting for queued children: no child task starts, no
\* parent returns from r.get(), nothing times out, and the state lasts for
\* ever. (That such a state is reachable is C24_Witness.)
C24_PoolExhaustedIsStuck ==
    /\ [](Busy <= MaxWorkers)
    /\ [](PoolExhausted => ~Free)
    /\ [][~PoolExhausted]_vars
    /\ [](PoolExhausted => [](PoolExhausted /\ \E p \in Parents : parentJob[p] # "done"))

\* The deadlock: all workers hold waiting parents, all their children queued.
C24_Witness ==
    /\ PoolExhausted
    /\ Busy = MaxWorkers
    /\ \E p \in Parents : \E k \in Kids : childJob[p][k] = "queued"

\* C28 as stated: decode_key returns a key if and only if the decoded
\* material has exactly NACL_KEY_LENGTH bytes.
C28_KeyIffExactLength ==
    decoded.status # "none"
    => (decoded.status = "PrivateKey" <=> Len(b64decode(key)) = NACL_KEY_LENGTH)

\* C28, amended: decode_key returns a key if and only if the decoded material
\* has at least NACL_KEY_LENGTH bytes, and the key is made of the last
\* NACL_KEY_LENGTH bytes of the material; it fails with ValueError if and only
\* if the material is shorter. The material has three bytes for every four
\* digits, one for two and two for three left over, each byte in 0..255.
C28_KeyIffLongEnough ==
    decoded.status # "none" =>
        LET m == b64decode(key)
            n == Len(key.digits)
        IN  /\ Len(m) = 3 * (n \div 4) + (IF n % 4 = 0 THEN 0 ELSE (n % 4) - 1)
            /\ \A j \in 1..Len(m) : m[j] \in 0..255
            /\ decoded.status = "PrivateKey" <=> Len(m) >= NACL_KEY_LENGTH
            /\ decoded.status = "ValueError" <=> Len(m) < NACL_KEY_LENGTH
            /\ decoded.status = "PrivateKey" =>
                  /\ Len(decoded.value) = NACL_KEY_LENGTH
                  /\ \A i \in 1..NACL_KEY_LENGTH :
                        decoded.value[i] = m[Len(m) - NACL_KEY_LENGTH + i]

\* Material longer than the key length gave a key that is not its beginning.
C28_Witness ==
    /\ decoded.status = "PrivateKey"
    /\ Len(b64decode(key)) > NACL_KEY_LENGTH
    /\ decoded.value # SubSeq(b64decode(key), 1, NACL_KEY_LENGTH)

====
